---- MODULE Spec2Model ----
(***************************************************************************)
(* A model of espalomax/nn.py: the Janossy pooling module, the GraphSage   *)
(* node representation and the Parametrization pipeline that composes      *)
(* them.  Arrays are sequences (a matrix is a sequence of rows), numbers   *)
(* are floating point values with a short significand, and a module call   *)
(* is one action.                                                          *)
(***************************************************************************)
EXTENDS Integers, Sequences, FiniteSets, Bags, TLC

\* ------------------------------------------------------------------ bounds
\* bits of significand of the modelled float format (float32 has 24)
Prec == 3
\* most tuples of one interaction kind in an input heterograph
MaxTuples == 2
\* atoms of an input graph
NumAtoms == 4
\* deepest hidden stack / representation that is configured
MaxDepth == 2
\* width of the hidden stacks and of the atom embeddings
HiddenFeatures == 2

\* ------------------------------------------------------- float arithmetic
Abs(x) == IF x < 0 THEN -x ELSE x

RECURSIVE UlpFrom(_, _)
UlpFrom(m, u) == IF m < (2 ^ Prec) * u THEN u ELSE UlpFrom(m, 2 * u)

\* the spacing of the representable values around magnitude m
Ulp(m) == UlpFrom(m, 1)

\* round to the nearest representable value, ties to the even significand
Rnd(x) ==
  LET m == Abs(x)
      u == Ulp(m)
      q == m \div u
      r == m % u
      qq == IF 2 * r < u THEN q
            ELSE IF 2 * r > u THEN q + 1
            ELSE IF q % 2 = 0 THEN q ELSE q + 1
  IN  IF x < 0 THEN -(qq * u) ELSE qq * u

FAdd(a, b) == Rnd(a + b)

FMul(a, b) == Rnd(a * b)

\* division by a count, rounded to the grid (ties to even)
FDiv(a, n) ==
  LET m == Abs(a)
      q == m \div n
      r == m % n
      qq == IF 2 * r < n THEN q
            ELSE IF 2 * r > n THEN q + 1
            ELSE IF q % 2 = 0 THEN q ELSE q + 1
  IN  Rnd(IF a < 0 THEN -qq ELSE qq)

\* jax.nn.elu on the grid: x for x > 0, exp(x) - 1 rounded for x <= 0
Elu(x) == IF x > 0 THEN x ELSE IF x = 0 THEN 0 ELSE -1

Relu(x) == IF x > 0 THEN x ELSE 0

\* --------------------------------------------------------- names, schema
\* a parameter name is a Python string: a sequence of characters
COEFFICIENTS == <<"c", "o", "e", "f", "f", "i", "c", "i", "e", "n", "t", "s">>
LOG_COEFFICIENTS == <<"l", "o", "g", "_">> \o COEFFICIENTS
COEFFICIENTS_0 == COEFFICIENTS \o <<"_", "0">>
COEFF == <<"c", "o", "e", "f", "f">>
K == <<"k">>
IDXS == <<"i", "d", "x", "s">>
EQ == <<"e", "q">>

\* Python's `sub in s` on strings
Contains(sub, s) ==
  \E i \in 0..(Len(s) - Len(sub)) : SubSeq(s, i + 1, i + Len(sub)) = sub

\* a list that is no cyclic group (a faulty variant of IMPROPER_PERMUTATIONS)
ImproperPermutationsSwapped == << <<0, 1, 2, 3>>, <<0, 2, 1, 3>>, <<0, 3, 1, 2>> >>

IMPROPER_PERMUTATIONS == << <<0, 1, 2, 3>>, <<0, 2, 3, 1>>, <<0, 3, 1, 2>> >>

JANOSSY_POOLING_PARAMETERS ==
  [k \in {"bond", "angle", "proper", "improper"} |->
     IF k \in {"bond", "angle"} THEN (COEFFICIENTS :> 2) ELSE (K :> 6)]

\* a schema with several names per kind, some holding "coefficients"
PolynomialParameters ==
  [k \in {"bond", "angle", "proper", "improper"} |->
     CASE k = "bond" -> (LOG_COEFFICIENTS :> 1) @@ (COEFF :> 1)
       [] k = "angle" -> (COEFFICIENTS_0 :> 2)
       [] k = "proper" -> (K :> 1) @@ (COEFFICIENTS :> 1)
       [] OTHER -> (K :> 2)]

\* a schema that names only some of the interaction kinds
ValenceParameters ==
  [k \in {"bond", "angle"} |-> (COEFFICIENTS :> 2)]

Schemas == {JANOSSY_POOLING_PARAMETERS, PolynomialParameters, ValenceParameters}

\* the tuple arity of an interaction kind
Arity(kind) ==
  CASE kind = "bond" -> 2
    [] kind = "angle" -> 3
    [] OTHER -> 4

\* ------------------------------------------------------------------ state
VARIABLES
  pc,            \* "new", "setup", "ready", "pool_in", "pool_out", "graph_in", "graph_out"
  out_features,  \* JanossyPooling.out_features: kind -> (parameter name -> dimension)
  depth,         \* JanossyPooling.depth and GraphSageModel.depth
  modules,       \* the sub-modules setup() attached: attribute name -> module
  rng,           \* the PRNG key model.init was given
  nn_params,     \* the learned weights: attribute name -> <<[kernel, bias], ...>>
  trained,       \* whether gradients were applied since model.init
  graph,         \* the caller's input: [homograph, heterograph]
  nodes,         \* the embeddings handed to the pooling
  parameters,    \* the object the last call returned: [id, map]
  raised,        \* whether the last call ended in an exception
  called,        \* attribute names of the sub-modules the last call applied
  prev           \* the call before the last one: [graph, nn_params, raised, map]

vars == <<pc, out_features, depth, modules, rng, nn_params, trained, graph, nodes,
          parameters, raised, called, prev>>

\* --------------------------------------------------------------- setup()
\* "d_%s" % out_feature
AttrName(kind) == <<"d_", kind>>

\* "d_%s_%s" % (out_feature, parameter)
AttrName2(kind, parameter) == <<"d_", kind, "_">> \o parameter

DenseModule(features, bias_init) ==
  [type |-> "Dense", features |-> features, bias_init |-> bias_init,
   layers |-> <<>>]

ActivationFn ==
  [type |-> "activation", features |-> 0, bias_init |-> "", layers |-> <<>>]

\* the depth x (Dense(hidden_features), activation) list given to nn.Sequential
HiddenStack(d) ==
  [type |-> "Sequential", features |-> 0, bias_init |-> "",
   layers |-> [i \in 1..(2 * d) |->
                 IF i % 2 = 1 THEN DenseModule(HiddenFeatures, "default")
                 ELSE ActivationFn]]

\* the head built with an equality test of the name (a faulty variant of HeadModule)
HeadModuleByEquality(parameter, dimension) ==
  IF parameter = COEFFICIENTS
  THEN DenseModule(dimension, "constant(-5.0)")
  ELSE DenseModule(dimension, "default")

HeadModule(parameter, dimension) ==
  IF Contains(COEFFICIENTS, parameter)
  THEN DenseModule(dimension, "constant(-5.0)")
  ELSE DenseModule(dimension, "default")

KindModules(of, d, kind) ==
  (AttrName(kind) :> HiddenStack(d))
  @@ [a \in {AttrName2(kind, p) : p \in DOMAIN of[kind]} |->
        LET p == CHOOSE q \in DOMAIN of[kind] : AttrName2(kind, q) = a
        IN  HeadModule(p, of[kind][p])]

RECURSIVE SetupModules(_, _, _)
SetupModules(of, d, kinds) ==
  IF kinds = {} THEN <<>>
  ELSE LET kind == CHOOSE k \in kinds : TRUE
       IN  KindModules(of, d, kind) @@ SetupModules(of, d, kinds \ {kind})

\* ------------------------------------------------------ model.init(key, .)
KindIndex(kind) ==
  CASE kind = "bond" -> 1
    [] kind = "angle" -> 2
    [] kind = "proper" -> 3
    [] OTHER -> 4

\* the kernel initializer: a pseudo-random value drawn from the key
KernelInit(key, salt, i, j) ==
  (((key + 2) * (3 * i + 7 * j + salt) + i * j) % 5) - 2

\* a trained bias
BiasTrained(key, salt, j) == (((key + 1) * (3 * j + salt)) % 4) - 1

\* bias_init: constant(-5.0) where asked for, flax's zeros otherwise
BiasInit(module) == IF module.bias_init = "constant(-5.0)" THEN -5 ELSE 0

\* the variables of one Dense(features) applied to rows of width indim
DenseParams(module, key, salt, indim, isTrained) ==
  [kernel |-> [i \in 1..indim |->
                 [j \in 1..module.features |-> KernelInit(key, salt, i, j)]],
   bias |-> [j \in 1..module.features |->
               IF isTrained THEN BiasTrained(key, salt, j) ELSE BiasInit(module)]]

\* the variables of a nn.Sequential of Dense and activation layers
SequentialParams(module, key, salt, indim, isTrained) ==
  [l \in 1..(Len(module.layers) \div 2) |->
     DenseParams(module.layers[2 * l - 1], key, salt + l,
                 IF l = 1 THEN indim ELSE module.layers[2 * l - 3].features,
                 isTrained)]

\* the variables of the pooling's sub-modules; a hidden stack takes the
\* flattened embeddings of one tuple of its kind
PoolingParams(mods, key, isTrained) ==
  [a \in DOMAIN mods |->
     IF mods[a].type = "Sequential"
     THEN SequentialParams(mods[a], key, KindIndex(a[2]),
                           Arity(a[2]) * HiddenFeatures, isTrained)
     ELSE <<DenseParams(mods[a], key, KindIndex(a[2]) + Len(a),
                        HiddenFeatures, isTrained)>>]

\* the variables of the GraphSageModel: depth x Dense(hidden_features) over
\* the concatenation [h_e, nodes]
RepresentationParams(d, key, isTrained) ==
  [l \in 1..d |->
     DenseParams(DenseModule(HiddenFeatures, "default"), key, 7 + l,
                 2 * HiddenFeatures, isTrained)]

InitVariables(mods, d, key, isTrained) ==
  [representation |-> RepresentationParams(d, key, isTrained),
   janossy_pooling |-> PoolingParams(mods, key, isTrained)]

\* ----------------------------------------------------------------- arrays
\* an array held by value: the sequence with every element computed
Array(f) == f \o <<>>

\* Op applied to the value of e, which is computed once
Bind(e, Op(_)) == CHOOSE r \in {Op(v) : v \in {e}} : TRUE

RECURSIVE Dot(_, _, _, _)
\* sum_i x[i] * kernel[i][j] over i = 1..n, accumulated left to right
Dot(x, kernel, j, n) ==
  IF n = 0 THEN 0
  ELSE FAdd(Dot(x, kernel, j, n - 1), FMul(x[n], kernel[n][j]))

\* nn.Dense on a matrix of rows: x @ kernel + bias
DenseRow(p, row) ==
  Array([j \in 1..Len(p.bias) |-> FAdd(Dot(row, p.kernel, j, Len(row)), p.bias[j])])

Dense(p, x) ==
  Bind(x, LAMBDA v :
    Array([t \in 1..Len(v) |-> Bind(v[t], LAMBDA row : DenseRow(p, row))]))

Activation(x) ==
  Bind(x, LAMBDA v :
    Array([t \in 1..Len(v) |-> Array([j \in 1..Len(v[t]) |-> Elu(v[t][j])])]))

RECURSIVE Sequential(_, _, _)
\* nn.Sequential([Dense, activation, ...]) over the first n Dense layers
Sequential(ps, x, n) ==
  IF n = 0 THEN x ELSE Activation(Dense(ps[n], Sequential(ps, x, n - 1)))

\* elementwise a + b of two matrices of one shape
MatAdd(a, b) ==
  Bind(<<a, b>>, LAMBDA v :
    Array([t \in 1..Len(v[1]) |->
             Array([j \in 1..Len(v[1][t]) |-> FAdd(v[1][t][j], v[2][t][j])])]))

\* Python's 0 + a: the scalar is broadcast
ScalarAdd(c, a) ==
  Bind(a, LAMBDA v :
    Array([t \in 1..Len(v) |-> Array([j \in 1..Len(v[t]) |-> FAdd(c, v[t][j])])]))

RECURSIVE Sum(_, _)
\* Python's sum(hs): ((0 + hs[0]) + hs[1]) + ...
Sum(hs, n) ==
  IF n = 0 THEN <<>>
  ELSE IF n = 1 THEN ScalarAdd(0, hs[1])
  ELSE MatAdd(Sum(hs, n - 1), hs[n])

\* nodes[idxs]: the embeddings of the atoms of every tuple, [tuples, arity, D]
Gather(ns, idxs) ==
  Array([t \in 1..Len(idxs) |->
           Array([a \in 1..Len(idxs[t]) |-> ns[idxs[t][a] + 1]])])

\* jnp.size of an array of three axes
Size3(h) ==
  IF Len(h) = 0 THEN 0
  ELSE IF Len(h[1]) = 0 THEN 0
  ELSE Len(h) * Len(h[1]) * Len(h[1][1])

\* jnp.size of a matrix
Size2(h) == IF Len(h) = 0 THEN 0 ELSE Len(h) * Len(h[1])

\* jnp.flip along the tuple axis (a faulty variant of Flip)
FlipTuples(h) == Array([t \in 1..Len(h) |-> h[Len(h) + 1 - t]])

\* no flip at all (a faulty variant of Flip)
FlipNothing(h) == h

\* jnp.flip(h, -2): the atoms of every tuple in reversed order
Flip(h) ==
  Array([t \in 1..Len(h) |->
           Array([a \in 1..Len(h[t]) |-> h[t][Len(h[t]) + 1 - a]])])

RECURSIVE Concat(_, _)
Concat(vs, n) == IF n = 0 THEN <<>> ELSE Concat(vs, n - 1) \o vs[n]

\* h.reshape(*h.shape[:-2], -1): every tuple's embeddings end to end
Reshape(h) == Array([t \in 1..Len(h) |-> Concat(h[t], Len(h[t]))])

\* an index into an axis of length n, as a gather clamps it
Clamp(i, n) == IF i > n - 1 THEN n - 1 ELSE i

\* h[..., jnp.array(permutation), :]
Take(h, permutation) ==
  Array([t \in 1..Len(h) |->
           Array([a \in 1..Len(permutation) |->
                    h[t][Clamp(permutation[a], Len(h[t])) + 1]])])

\* jnp.array([[]], dtype=jnp.float32)
EmptyArray == << <<>> >>

\* ------------------------------------------------- JanossyPooling.__call__
\* an object of class Heterograph: an identity and a mapping
NoObject == [id |-> 0, map |-> <<>>]

\* `parameters = heterograph`: the input object itself (a faulty variant of NewHeterograph)
SameHeterograph(heterograph) == heterograph

\* `parameters = Heterograph()`: a new, empty object
NewHeterograph(heterograph) == [id |-> heterograph.id + 1, map |-> <<>>]

\* a test that lets every array through (a faulty variant of NonEmpty)
AlwaysNonEmpty(h) == TRUE

\* `jnp.size(h) > 0` of the gathered embeddings
NonEmpty(h) == Size3(h) > 0

\* getattr(self, "d_%s" % out_feature) applied to a matrix of rows
Layer(ps, kind, x) == Sequential(ps[AttrName(kind)], x, Len(ps[AttrName(kind)]))

\* the list hs: the hidden stack applied to every permutation of the tuples
PermutedTerms(ps, kind, h) ==
  Array([i \in 1..Len(IMPROPER_PERMUTATIONS) |->
           Layer(ps, kind, Reshape(Take(h, IMPROPER_PERMUTATIONS[i])))])

\* the hidden stack with the reversed term left out (a faulty variant of Symmetrize)
SymmetrizeNotProper(ps, kind, h) ==
  IF kind \in {"bond", "angle"}
  THEN MatAdd(Layer(ps, kind, Reshape(h)), Layer(ps, kind, Reshape(Flip(h))))
  ELSE IF kind # "improper"
  THEN Layer(ps, kind, Reshape(h))
  ELSE Sum(PermutedTerms(ps, kind, h), Len(IMPROPER_PERMUTATIONS))

\* the symmetrized hidden vectors of the tuples of one kind
Symmetrize(ps, kind, h) ==
  IF kind # "improper"
  THEN MatAdd(Layer(ps, kind, Reshape(h)), Layer(ps, kind, Reshape(Flip(h))))
  ELSE Sum(PermutedTerms(ps, kind, h), Len(IMPROPER_PERMUTATIONS))

\* the width of the rows the hidden stack of `kind` is applied to
LayerInputWidth(kind, h) ==
  IF kind # "improper" THEN Len(h[1]) * Len(h[1][1])
  ELSE Len(IMPROPER_PERMUTATIONS[1]) * Len(h[1][1])

\* the first Dense of the stack meets rows its kernel was not made for
KindRaises(ps, kind, idxs, ns) ==
  LET h == Gather(ns, idxs)
  IN  /\ Size3(h) > 0
      /\ NonEmpty(h)
      /\ LayerInputWidth(kind, h) # Len(ps[AttrName(kind)][1].kernel)

\* the hidden array of one kind: symmetrized, or the empty placeholder
KindHidden(ps, kind, h0) ==
  IF NonEmpty(h0) THEN Symmetrize(ps, kind, h0) ELSE EmptyArray

\* one iteration of the loop over the kinds: what it writes under the kind
\* and the sub-modules it applies
KindIteration(ps, of, kind, idxs, ns) ==
  Bind(Gather(ns, idxs), LAMBDA h0 :
    Bind(KindHidden(ps, kind, h0), LAMBDA h :
      [parameters |->
         [key \in DOMAIN of[kind] \cup {IDXS} |->
            IF key = IDXS THEN idxs
            ELSE IF Size2(h) > 0 THEN Dense(ps[AttrName2(kind, key)][1], h)
            ELSE EmptyArray],
       called |->
         (IF NonEmpty(h0) THEN {AttrName(kind)} ELSE {})
         \cup (IF Size2(h) > 0
               THEN {AttrName2(kind, p) : p \in DOMAIN of[kind]} ELSE {})]))

\* the kinds of the schema whose iteration writes anything
Written(of) == {k \in DOMAIN of : DOMAIN of[k] # {}}

\* the kinds whose iteration raises
Raising(ps, of, hmap, ns) ==
  {k \in DOMAIN of : KindRaises(ps, k, hmap[k][IDXS], ns)}

\* the outcome of one call: the exception flag, the returned object, the
\* sub-modules applied.  The kinds are gone through in the schema's order and
\* the first that raises ends the call.
JanossyPooling(ps, of, heterograph, ns) ==
  LET hmap == heterograph.map
      bad == Raising(ps, of, hmap, ns)
      first == IF bad = {} THEN 5
               ELSE KindIndex(CHOOSE k \in bad :
                                \A k2 \in bad : KindIndex(k) <= KindIndex(k2))
      parameters0 == NewHeterograph(heterograph)
  IN  Bind([k \in {k2 \in DOMAIN of : KindIndex(k2) < first} |->
              KindIteration(ps, of, k, hmap[k][IDXS], ns)],
        LAMBDA it :
          [raised |-> bad # {},
           parameters |->
             IF bad # {} THEN NoObject
             ELSE [id |-> parameters0.id,
                   map |-> [k \in DOMAIN parameters0.map \cup Written(of) |->
                              IF k \in Written(of)
                              THEN it[k].parameters
                                   @@ (IF k \in DOMAIN parameters0.map
                                       THEN parameters0.map[k] ELSE <<>>)
                              ELSE parameters0.map[k]]],
           called |->
             UNION {it[k].called : k \in DOMAIN it}
             \cup {AttrName(k) : k \in {k2 \in bad : KindIndex(k2) = first}}])

\* ------------------------------------------------------- GraphSageModel
RECURSIVE SegmentSum(_, _, _, _, _, _)
\* the sum, in edge order, of feature d of the senders of the first n edges
\* whose receiver is r
SegmentSum(ns, senders, receivers, r, d, n) ==
  IF n = 0 THEN 0
  ELSE IF receivers[n] = r
  THEN FAdd(SegmentSum(ns, senders, receivers, r, d, n - 1), ns[senders[n] + 1][d])
  ELSE SegmentSum(ns, senders, receivers, r, d, n - 1)

\* jraph.segment_mean(nodes[senders], receivers, total_num_nodes)
SegmentMean(ns, senders, receivers) ==
  Array([i \in 1..Len(ns) |->
     LET cnt == Cardinality({e \in 1..Len(receivers) : receivers[e] = i - 1})
     IN  Array([d \in 1..Len(ns[i]) |->
            IF cnt = 0 THEN 0
            ELSE FDiv(SegmentSum(ns, senders, receivers, i - 1, d, Len(senders)),
                      cnt)])])

\* GraphSageLayer.__call__: the nodes of graph._replace(nodes = ...)
GraphSageLayer(p, homograph, ns) ==
  Bind(ns, LAMBDA v :
    Bind(SegmentMean(v, homograph.senders, homograph.receivers), LAMBDA h_e :
      Bind(Dense(p, Array([i \in 1..Len(v) |-> h_e[i] \o v[i]])), LAMBDA y :
        Array([i \in 1..Len(y) |->
                 Array([j \in 1..Len(y[i]) |-> Relu(y[i][j])])]))))

RECURSIVE GraphSageModel(_, _, _)
\* nn.Sequential of the first n GraphSageLayers
GraphSageModel(ps, homograph, n) ==
  IF n = 0 THEN homograph.nodes
  ELSE GraphSageLayer(ps[n], homograph, GraphSageModel(ps, homograph, n - 1))

\* embeddings kept from the call before and looked up by the number of atoms
\* alone (a faulty variant of Representation)
RepresentationCached(ps, homograph) ==
  IF Len(prev.graph.homograph.nodes) = Len(homograph.nodes)
  THEN GraphSageModel(ps, prev.graph.homograph, Len(ps))
  ELSE GraphSageModel(ps, homograph, Len(ps))

\* self.representation(homograph).nodes
Representation(ps, homograph) == GraphSageModel(ps, homograph, Len(ps))

\* Parametrization.__call__: the outcome and the embeddings it pooled
Parametrization(ps, of, g) ==
  Bind(Representation(ps.representation, g.homograph), LAMBDA ns :
    [nodes |-> ns,
     out |-> JanossyPooling(ps.janossy_pooling, of, g.heterograph, ns)])

\* ----------------------------------------------------------------- inputs
Kinds == {"bond", "angle", "proper", "improper"}

Keys == {0, 1}

\* the arities a malformed graph conversion gives: kind and offset
Malformed == {<<"bond", 1>>, <<"proper", -1>>, <<"improper", -1>>, <<"improper", 1>>}

\* an embedding (or atom feature) vector
EmbVec(c) == Array([d \in 1..HiddenFeatures |-> (c * (d + 1) + d) % 5])

EmbCodes == {1, 2}

\* the atoms of a pooled array repeat a motif of three element types
Motifs == [0..2 -> EmbCodes]

\* tuple i of an arity: consecutive atoms starting at atom i - 1
TupleAt(i, ar) == [a \in 1..ar |-> (i + a - 2) % NumAtoms]

\* how many tuples each kind has; every kind is empty under some profile
CountProfile(c) ==
  IF c > MaxTuples THEN [k \in Kinds |-> IF k = "bond" THEN 1 ELSE 0]
  ELSE [k \in Kinds |-> (c + KindIndex(k)) % (MaxTuples + 1)]

\* a heterograph of count profile c whose kind `bad` (if any) has tuples of
\* an arity off by delta
HeteroMap(c, bad, delta) ==
  [k \in Kinds |->
     (IDXS :> [i \in 1..CountProfile(c)[k] |->
                 TupleAt(i, Arity(k) + (IF k = bad THEN delta ELSE 0))])]

NoHomograph == [nodes |-> <<>>, senders |-> <<>>, receivers |-> <<>>]

NoGraph == [homograph |-> NoHomograph, heterograph |-> NoObject]

\* a chain 0 - 1 - ... - (n-1), or a star around atom 0, with its tuples
Molecule(shape, n, f) ==
  LET bonds == [t \in 1..(n - 1) |->
                  IF shape = "chain" THEN <<t - 1, t>> ELSE <<0, t>>]
      angles == [t \in 1..(n - 2) |->
                   IF shape = "chain" THEN <<t - 1, t, t + 1>> ELSE <<t, 0, t + 1>>]
      propers == IF shape = "chain"
                 THEN [t \in 1..(n - 3) |-> <<t - 1, t, t + 1, t + 2>>] ELSE <<>>
      impropers == IF shape = "chain" THEN <<>>
                   ELSE [t \in 1..(n - 3) |-> <<0, t, t + 1, t + 2>>]
  IN  [homograph |->
         [nodes |-> [i \in 1..n |-> EmbVec(((i + f) % 2) + 1)],
          senders |-> [e \in 1..(2 * (n - 1)) |->
                         IF e <= n - 1 THEN bonds[e][1] ELSE bonds[e - (n - 1)][2]],
          receivers |-> [e \in 1..(2 * (n - 1)) |->
                           IF e <= n - 1 THEN bonds[e][2] ELSE bonds[e - (n - 1)][1]]],
       heterograph |->
         [id |-> 1,
          map |-> [k \in Kinds |->
                     (IDXS :> CASE k = "bond" -> bonds
                                [] k = "angle" -> angles
                                [] k = "proper" -> propers
                                [] OTHER -> impropers)
                     @@ (IF k = "bond"
                         THEN (EQ :> Array([t \in 1..(n - 1) |-> <<t>>]))
                         ELSE <<>>)]]]

\* ---------------------------------------------------------------- actions
NoCall == [graph |-> NoGraph, nn_params |-> <<>>, raised |-> FALSE, map |-> <<>>]

Init ==
  /\ pc = "new"
  /\ out_features \in Schemas
  /\ depth \in 1..MaxDepth
  /\ modules = <<>>
  /\ rng = 0
  /\ nn_params = <<>>
  /\ trained = FALSE
  /\ graph = NoGraph
  /\ nodes = <<>>
  /\ parameters = NoObject
  /\ raised = FALSE
  /\ called = {}
  /\ prev = NoCall

\* JanossyPooling.setup
Setup ==
  /\ pc = "new"
  /\ modules' = SetupModules(out_features, depth, DOMAIN out_features)
  /\ pc' = "setup"
  /\ UNCHANGED <<out_features, depth, rng, nn_params, trained, graph, nodes,
                 parameters, raised, called, prev>>

\* model.init(jax.random.PRNGKey(key), graph)
InitParams ==
  /\ pc = "setup"
  /\ \E k \in Keys :
        /\ rng' = k
        /\ nn_params' = InitVariables(modules, depth, k, FALSE)
  /\ trained' = FALSE
  /\ pc' = "ready"
  /\ UNCHANGED <<out_features, depth, modules, graph, nodes, parameters,
                 raised, called, prev>>

\* state.apply_gradients(grads): the weights move, nothing else does
Train ==
  /\ pc = "ready"
  /\ ~trained
  /\ nn_params' = InitVariables(modules, depth, rng + 2, TRUE)
  /\ trained' = TRUE
  /\ UNCHANGED <<pc, out_features, depth, modules, rng, graph, nodes, parameters,
                 raised, called, prev>>

\* the caller builds a heterograph and an embedding array
LoadPool ==
  /\ pc = "ready"
  /\ \E e \in Motifs :
        /\ \/ \E c \in 0..(MaxTuples + 1) :
                graph' = [homograph |-> NoHomograph,
                          heterograph |-> [id |-> 1, map |-> HeteroMap(c, "", 0)]]
           \/ \E m \in Malformed :
                graph' = [homograph |-> NoHomograph,
                          heterograph |-> [id |-> 1,
                                           map |-> HeteroMap(1, m[1], m[2])]]
        /\ nodes' = Array([i \in 1..NumAtoms |-> EmbVec(e[i % 3])])
  /\ parameters' = NoObject
  /\ raised' = FALSE
  /\ called' = {}
  /\ pc' = "pool_in"
  /\ UNCHANGED <<out_features, depth, modules, rng, nn_params, trained, prev>>

\* janossy_pooling.apply(nn_params, heterograph, nodes)
PoolCall ==
  /\ pc = "pool_in"
  /\ \E out \in {JanossyPooling(nn_params.janossy_pooling, out_features,
                                 graph.heterograph, nodes)} :
         /\ raised' = out.raised
         /\ parameters' = out.parameters
         /\ called' = out.called
         /\ graph' = IF out.parameters.id = graph.heterograph.id
                     THEN [graph EXCEPT !.heterograph = out.parameters]
                     ELSE graph
  /\ pc' = "pool_out"
  /\ UNCHANGED <<out_features, depth, modules, rng, nn_params, trained, nodes, prev>>

\* the caller converts a molecule into a graph
LoadGraph ==
  /\ pc = "ready"
  /\ \E shape \in {"chain", "star"}, n \in 2..NumAtoms, f \in {0, 1} :
        graph' = Molecule(shape, n, f)
  /\ parameters' = NoObject
  /\ raised' = FALSE
  /\ called' = {}
  /\ pc' = "graph_in"
  /\ UNCHANGED <<out_features, depth, modules, rng, nn_params, trained, nodes, prev>>

\* model.apply(nn_params, graph)
Parametrize ==
  /\ pc = "graph_in"
  /\ \E r \in {Parametrization(nn_params, out_features, graph)} :
         /\ nodes' = r.nodes
         /\ raised' = r.out.raised
         /\ parameters' = r.out.parameters
         /\ called' = r.out.called
         /\ graph' = IF r.out.parameters.id = graph.heterograph.id
                     THEN [graph EXCEPT !.heterograph = r.out.parameters]
                     ELSE graph
  /\ pc' = "graph_out"
  /\ UNCHANGED <<out_features, depth, modules, rng, nn_params, trained, prev>>

\* the call is over: the caller lets go of the graph and of the result
Drop ==
  /\ pc' = "ready"
  /\ graph' = NoGraph
  /\ parameters' = NoObject
  /\ raised' = FALSE
  /\ called' = {}
  /\ nodes' = <<>>
  /\ UNCHANGED <<out_features, depth, modules, rng, nn_params, trained>>

Return ==
  /\ pc \in {"pool_out", "graph_out"}
  /\ Drop
  /\ UNCHANGED prev

\* the same, with the finished call remembered for comparison
ReturnLogged ==
  /\ pc = "graph_out"
  /\ Drop
  /\ prev' = [graph |-> graph, nn_params |-> nn_params, raised |-> raised,
              map |-> parameters.map]

Next ==
  \/ Setup
  \/ InitParams
  \/ Train
  \/ LoadPool
  \/ PoolCall
  \/ LoadGraph
  \/ Parametrize
  \/ Return

Spec == Init /\ [][Next]_vars

\* the pipeline alone, every finished call remembered
NextLogged ==
  \/ Setup
  \/ InitParams
  \/ Train
  \/ LoadGraph
  \/ Parametrize
  \/ ReturnLogged

ParamSpec == Init /\ [][NextLogged]_vars

\* ------------------------------------------------- what the claims speak of
\* a call has returned (and not raised)
Returned == pc \in {"pool_out", "graph_out"} /\ ~raised

\* the tuples of a kind in the input of the last call
Idxs(kind) == graph.heterograph.map[kind][IDXS]

\* the tuples with the atom order of each reversed
ReverseTuples(idxs) ==
  Array([t \in 1..Len(idxs) |->
           Array([a \in 1..Len(idxs[t]) |-> idxs[t][Len(idxs[t]) + 1 - a]])])

\* the tuples with the atoms of each relabeled by a permutation of positions
Relabel(idxs, permutation) ==
  Array([t \in 1..Len(idxs) |->
           Array([a \in 1..Len(permutation) |-> idxs[t][permutation[a] + 1]])])

\* every tuple of the kind has the arity of the kind
WellFormed(kind) == \A t \in 1..Len(Idxs(kind)) : Len(Idxs(kind)[t]) = Arity(kind)

\* what pooling the given tuples of a kind, alone, returns for a name
Pooled(kind, idxs, p) ==
  KindIteration(nn_params.janossy_pooling, out_features, kind, idxs, nodes)
    .parameters[p]

\* the shape of a matrix
Shape(a) == <<Len(a), IF Len(a) = 0 THEN 0 ELSE Len(a[1])>>

\* C1: for bond and angle, pooling a tuple and pooling the tuple reversed give
\* identical values for every parameter name of the kind.
C1_ReversalInvariant ==
  Returned =>
    \A kind \in {"bond", "angle"} \cap DOMAIN out_features :
      \A p \in DOMAIN out_features[kind] :
        Pooled(kind, ReverseTuples(Idxs(kind)), p) = parameters.map[kind][p]

\* a bond tuple whose two orders give the hidden stack different rows, pooled
C1_Witness ==
  /\ Returned
  /\ "bond" \in DOMAIN out_features
  /\ Len(Idxs("bond")) > 0
  /\ \E h \in {Gather(nodes, Idxs("bond"))} :
        /\ Reshape(h) # Reshape(Flip(h))
        /\ Layer(nn_params.janossy_pooling, "bond", Reshape(h))
             # Layer(nn_params.janossy_pooling, "bond", Reshape(Flip(h)))
  /\ \A p \in DOMAIN out_features["bond"] :
        Pooled("bond", ReverseTuples(Idxs("bond")), p) = parameters.map["bond"][p]

\* the three cyclic orders of the outer atoms of an improper, atom 0 central
CyclicOrders == << <<0, 1, 2, 3>>, <<0, 2, 3, 1>>, <<0, 3, 1, 2>> >>

Terms(idxs) ==
  PermutedTerms(nn_params.janossy_pooling, "improper", Gather(nodes, idxs))

C5_ProperForwardOnly ==
  (Returned /\ "proper" \in DOMAIN out_features /\ Len(Idxs("proper")) > 0) =>
    \A p \in DOMAIN out_features["proper"] :
      parameters.map["proper"][p]
        = Dense(nn_params.janossy_pooling[AttrName2("proper", p)][1],
                Layer(nn_params.janossy_pooling, "proper",
                      Reshape(Gather(nodes, Idxs("proper")))))

\* C5 amended: the hidden vector of a proper tuple is the hidden stack of
\* the forward-order concatenation plus the hidden stack of the
\* reversed-order one, as for bond and angle, so a proper tuple and its
\* reversal get identical values.
C5_ProperReversalSymmetrized ==
  (Returned /\ "proper" \in DOMAIN out_features /\ Len(Idxs("proper")) > 0) =>
    \A p \in DOMAIN out_features["proper"] :
      /\ parameters.map["proper"][p]
           = Dense(nn_params.janossy_pooling[AttrName2("proper", p)][1],
                   MatAdd(Layer(nn_params.janossy_pooling, "proper",
                                Reshape(Gather(nodes, Idxs("proper")))),
                          Layer(nn_params.janossy_pooling, "proper",
                                Reshape(Gather(nodes, ReverseTuples(Idxs("proper")))))))
      /\ Pooled("proper", ReverseTuples(Idxs("proper")), p)
           = parameters.map["proper"][p]

\* a proper tuple pooled whose two orders give the hidden stack different rows
C5_Witness ==
  /\ Returned
  /\ "proper" \in DOMAIN out_features
  /\ Len(Idxs("proper")) > 0
  /\ \E h \in {Gather(nodes, Idxs("proper"))} :
        Layer(nn_params.janossy_pooling, "proper", Reshape(h))
          # Layer(nn_params.janossy_pooling, "proper", Reshape(Flip(h)))

\* the one-tuple list holding tuple i of a kind
Single(kind, i) == <<Idxs(kind)[i]>>

\* C3 as stated: under every kind of the schema, every parameter array has as
\* many rows as the kind has tuples.
C3_LeadingDimIsT ==
  Returned =>
    \A kind \in DOMAIN out_features :
      \A p \in DOMAIN out_features[kind] :
        Len(parameters.map[kind][p]) = Len(Idxs(kind))

\* C3 amended: under a kind with T >= 1 tuples every parameter array has T
\* rows, and row i is what pooling tuple i alone gives; under a kind with no
\* tuple every parameter array is the empty placeholder, of shape [1, 0].
C3_AlignedOrPlaceholder ==
  Returned =>
    \A kind \in DOMAIN out_features :
      \A p \in DOMAIN out_features[kind] :
        IF Len(Idxs(kind)) = 0
        THEN Shape(parameters.map[kind][p]) = <<1, 0>>
        ELSE /\ Len(parameters.map[kind][p]) = Len(Idxs(kind))
             /\ \A i \in 1..Len(Idxs(kind)) :
                  <<parameters.map[kind][p][i]>> = Pooled(kind, Single(kind, i), p)

\* two tuples of a kind with different embeddings pooled, and a kind without
\* tuples beside them
C3_Witness ==
  /\ Returned
  /\ \E kind \in DOMAIN out_features :
        /\ Len(Idxs(kind)) >= 2
        /\ \E p \in DOMAIN out_features[kind] :
              parameters.map[kind][p][1] # parameters.map[kind][p][2]
  /\ \E kind \in DOMAIN out_features : Len(Idxs(kind)) = 0

\* the attribute names of the sub-modules of a kind
KindAttrs(kind) ==
  {AttrName(kind)} \cup {AttrName2(kind, p) : p \in DOMAIN out_features[kind]}

\* C4: a call whose graph is well formed does not raise, whatever kinds are
\* empty; for a kind without tuples no sub-module of the kind is applied and
\* every parameter array has zero elements; for a kind with T >= 1 tuples
\* every sub-module of the kind is applied and every parameter array has
\* shape [T, dimension].
C4_EmptyKinds ==
  /\ (pc \in {"pool_out", "graph_out"}
        /\ \A kind \in DOMAIN out_features : WellFormed(kind)) => ~raised
  /\ Returned =>
       \A kind \in DOMAIN out_features :
         IF Len(Idxs(kind)) = 0
         THEN /\ KindAttrs(kind) \cap called = {}
              /\ \A p \in DOMAIN out_features[kind] :
                   Size2(parameters.map[kind][p]) = 0
         ELSE /\ KindAttrs(kind) \subseteq called
              /\ \A p \in DOMAIN out_features[kind] :
                   Shape(parameters.map[kind][p])
                     = <<Len(Idxs(kind)), out_features[kind][p]>>

\* one bond and no angle, proper or improper, under the default schema
C4_Witness ==
  /\ Returned
  /\ out_features = JANOSSY_POOLING_PARAMETERS
  /\ Len(Idxs("bond")) = 1
  /\ \A kind \in {"angle", "proper", "improper"} : Len(Idxs(kind)) = 0
  /\ Shape(parameters.map["bond"][COEFFICIENTS]) = <<1, 2>>
  /\ parameters.map["angle"][COEFFICIENTS] = EmptyArray
  /\ parameters.map["proper"][K] = EmptyArray
  /\ parameters.map["improper"][K] = EmptyArray

\* C6: a call on a heterograph that holds tuples of a kind the schema does
\* not name ends in an error.
C6_SchemaMismatchRaises ==
  (pc \in {"pool_out", "graph_out"}
     /\ \E kind \in DOMAIN graph.heterograph.map \ DOMAIN out_features :
          Len(Idxs(kind)) > 0)
    => raised

\* C7: a call on a heterograph in which a kind of the schema has tuples of
\* another arity than the kind's ends in an error.
C7_ArityMismatchRaises ==
  (pc \in {"pool_out", "graph_out"}
     /\ \E kind \in DOMAIN out_features : ~WellFormed(kind))
    => raised

\* C8: a call leaves the input graph (its kinds, tuple lists and precomputed
\* parameters, its atoms and edges) and the embeddings handed to the pooling
\* as they were, and what it returns is another object than the input
\* heterograph.
C8_InputsUnchanged ==
  [][(pc \in {"pool_in", "graph_in"}) =>
       ((graph' = graph)
        /\ ((pc = "pool_in") => (nodes' = nodes))
        /\ (parameters'.id # graph'.heterograph.id))]_vars

\* a call on a molecule with precomputed bond parameters has returned
C8_Witness ==
  /\ Returned
  /\ pc = "graph_out"
  /\ EQ \in DOMAIN graph.heterograph.map["bond"]
  /\ parameters.id # graph.heterograph.id
  /\ DOMAIN parameters.map = DOMAIN out_features
  /\ EQ \notin DOMAIN parameters.map["bond"]

C10_SetupBuildsModules ==
  pc # "new" =>
    /\ DOMAIN modules = UNION {KindAttrs(kind) : kind \in DOMAIN out_features}
    /\ \A kind \in DOMAIN out_features :
         /\ modules[AttrName(kind)].type = "Sequential"
         /\ Len(modules[AttrName(kind)].layers) = 2 * depth
         /\ \A i \in 1..(2 * depth) :
              modules[AttrName(kind)].layers[i]
                = IF i % 2 = 1 THEN DenseModule(HiddenFeatures, "default")
                  ELSE ActivationFn
         /\ \A p \in DOMAIN out_features[kind] :
              /\ modules[AttrName2(kind, p)].type = "Dense"
              /\ modules[AttrName2(kind, p)].features = out_features[kind][p]
              /\ modules[AttrName2(kind, p)].bias_init = "constant(-5.0)"
                   <=> Contains(COEFFICIENTS, p)
              /\ modules[AttrName2(kind, p)].bias_init \in {"constant(-5.0)", "default"}
              /\ (pc # "setup" /\ ~trained) =>
                   \A j \in 1..out_features[kind][p] :
                     nn_params.janossy_pooling[AttrName2(kind, p)][1].bias[j]
                       = IF Contains(COEFFICIENTS, p) THEN -5 ELSE 0

\* a schema with a name that holds "coefficients" without being it, set up
\* and initialized
C10_Witness ==
  /\ pc = "ready"
  /\ ~trained
  /\ out_features = PolynomialParameters
  /\ modules[AttrName2("bond", LOG_COEFFICIENTS)].bias_init = "constant(-5.0)"
  /\ modules[AttrName2("bond", COEFF)].bias_init = "default"
  /\ nn_params.janossy_pooling[AttrName2("bond", LOG_COEFFICIENTS)][1].bias = <<-5>>

====
